---- MODULE Spec2Model ----
(***************************************************************************)
(* A model of SudokuGame (src/main.cpp): the constraint checker, the       *)
(* candidate enumerator, the MRV backtracking solver, the capped solution  *)
(* counter, the puzzle generator and the player-facing handlers.           *)
(*                                                                         *)
(* The recursive searches (solveBacktrack, countSolutions) are modelled as *)
(* step machines over an explicit call stack: one frame per activation     *)
(* that has reached its candidate loop.  The handlers run to completion:   *)
(* no handler starts while pc # "idle".                                    *)
(***************************************************************************)
EXTENDS Integers, Sequences, FiniteSets, TLC

SIZE == 9
EMPTY == 0

\* Expert..Easy base clue counts (enum Difficulty).
EASY == 35
MEDIUM == 30
HARD == 25
EXPERT == 20

\* std::uniform_int_distribution<int>(0, 5)
MaxOffset == 5

Idx == 0..(SIZE - 1)
Cells == 0..(SIZE * SIZE - 1)

VARIABLES
    board,          \* the working board
    solution,       \* the reference solution
    fixed,          \* the fixed-cell mask
    rng,            \* the random engine, by the shuffles it can produce
    running,        \* FALSE once an exception has escaped to main()
    pc,             \* control position of the running handler
    op,             \* the running handler ("none" when idle)
    gref,           \* which grid the search's reference parameter is bound to
    tmp,            \* a handler's local grid copy (testGrid / tempBoard)
    stack,          \* activations of the running search, innermost last
    found,          \* value returned by the last solveBacktrack activation
    count,          \* countSolutions' counter (solutionCount)
    limit,          \* countSolutions' limit
    positions,      \* createPuzzle: the shuffled positions
    i,              \* createPuzzle: loop index
    cellsToRemove,  \* createPuzzle: SIZE*SIZE - targetClues
    backup,         \* createPuzzle: value of the cell being cleared
    difficulty,     \* createPuzzle: its parameter
    args,           \* arguments of the last handler call
    retBool,        \* bool returned by the last handler
    retMove,        \* Move returned by the last handler
    entry,          \* history: the searched grid as it was on entry
    writes          \* history: cells countSolutions assigned with count >= limit

vars == <<board, solution, fixed, rng, running, pc, op, gref, tmp, stack, found,
          count, limit, positions, i, cellsToRemove, backup, difficulty, args,
          retBool,
          retMove, entry, writes>>

(***************************************************************************)
(* Grids                                                                   *)
(***************************************************************************)
EmptyGrid == [r \in Idx |-> [c \in Idx |-> EMPTY]]

AllFixed(b) == [r \in Idx |-> [c \in Idx |-> b]]

Move(r, c, v) == [row |-> r, col |-> c, value |-> v]

NoMove == Move(-1, -1, -1)

(***************************************************************************)
(* Constraint checker                                                      *)
(***************************************************************************)
isValidInGridNoColumn(grid, row, col, num) ==
    /\ \A c \in Idx : ~(c # col /\ grid[row][c] = num)
    /\ LET boxRow == (row \div 3) * 3
           boxCol == (col \div 3) * 3
       IN \A r \in boxRow..(boxRow + 2) : \A c \in boxCol..(boxCol + 2) :
              ~((r # row \/ c # col) /\ grid[r][c] = num)

isValidInGrid(grid, row, col, num) ==
    /\ \A c \in Idx : ~(c # col /\ grid[row][c] = num)
    /\ \A r \in Idx : ~(r # row /\ grid[r][col] = num)
    /\ LET boxRow == (row \div 3) * 3
           boxCol == (col \div 3) * 3
       IN \A r \in boxRow..(boxRow + 2) : \A c \in boxCol..(boxCol + 2) :
              ~((r # row \/ c # col) /\ grid[r][c] = num)

isValidMoveNoSelf(b, row, col, num) ==
    IF row < 0 \/ row >= SIZE \/ col < 0 \/ col >= SIZE \/ num < 1 \/ num > SIZE
    THEN FALSE
    ELSE /\ \A c \in Idx : ~(b[row][c] = num)
         /\ \A r \in Idx : ~(b[r][col] = num)
         /\ LET boxRow == (row \div 3) * 3
                boxCol == (col \div 3) * 3
            IN \A r \in boxRow..(boxRow + 2) : \A c \in boxCol..(boxCol + 2) :
                   ~(b[r][c] = num)

isValidMove(b, row, col, num) ==
    IF row < 0 \/ row >= SIZE \/ col < 0 \/ col >= SIZE \/ num < 1 \/ num > SIZE
    THEN FALSE
    ELSE /\ \A c \in Idx : ~(c # col /\ b[row][c] = num)
         /\ \A r \in Idx : ~(r # row /\ b[r][col] = num)
         /\ LET boxRow == (row \div 3) * 3
                boxCol == (col \div 3) * 3
            IN \A r \in boxRow..(boxRow + 2) : \A c \in boxCol..(boxCol + 2) :
                   ~((r # row \/ c # col) /\ b[r][c] = num)

isComplete(b) == \A r \in Idx : \A c \in Idx : b[r][c] # EMPTY

(***************************************************************************)
(* Candidate enumerator                                                    *)
(***************************************************************************)
getCandidates(grid, row, col) ==
    SelectSeq([k \in 1..SIZE |-> k], LAMBDA num : isValidInGrid(grid, row, col, num))

(***************************************************************************)
(* MRV cell selection: the nested row/column loops of findBestCell, with   *)
(* the loop state (minCandidates, found, row, col) threaded through and    *)
(* "returned" set by the return inside the loop.                           *)
(***************************************************************************)
Min(S) == CHOOSE m \in S : \A o \in S : m <= o

visitNoEarlyReturn(grid, r, c, st) ==
    IF grid[r][c] = EMPTY
    THEN LET candidateCount == Len(getCandidates(grid, r, c))
         IN IF candidateCount <= st.minCandidates
            THEN [minCandidates |-> candidateCount, found |-> TRUE, row |-> r,
                  col |-> c, returned |-> FALSE]
            ELSE st
    ELSE st

\* The loop body at cell (r, c).
visit(grid, r, c, st) ==
    IF grid[r][c] = EMPTY
    THEN LET candidateCount == Len(getCandidates(grid, r, c))
         IN IF candidateCount < st.minCandidates
            THEN [minCandidates |-> candidateCount, found |-> TRUE, row |-> r,
                  col |-> c, returned |-> candidateCount = 1]
            ELSE st
    ELSE st

RECURSIVE scanCols(_, _, _, _)
scanCols(grid, r, c, st) ==
    IF c >= SIZE \/ st.returned THEN st
    ELSE scanCols(grid, r, c + 1, visit(grid, r, c, st))

RECURSIVE scanRows(_, _, _)
scanRows(grid, r, st) ==
    IF r >= SIZE \/ st.returned THEN st
    ELSE scanRows(grid, r + 1, scanCols(grid, r, 0, st))

findBestCell(grid) ==
    LET st == scanRows(grid, 0, [minCandidates |-> SIZE + 1, found |-> FALSE,
                                 row |-> 0, col |-> 0, returned |-> FALSE])
    IN [found |-> st.found, row |-> st.row, col |-> st.col]

\* The number of candidates of every empty cell k = r * SIZE + c.
candidateCounts(grid) ==
    [k \in {j \in Cells : grid[j \div SIZE][j % SIZE] = EMPTY} |->
        Len(getCandidates(grid, k \div SIZE, k % SIZE))]

(***************************************************************************)
(* std::shuffle(candidates, rng).  The engine is modelled by the           *)
(* permutations it can deliver: "any" delivers every permutation, "asc"    *)
(* the identity and "desc" the reversal.                                   *)
(***************************************************************************)
RECURSIVE Perms(_)
Perms(S) ==
    IF S = {} THEN {<< >>}
    ELSE UNION {{<<x>> \o p : p \in Perms(S \ {x})} : x \in S}

Range(v) == {v[k] : k \in DOMAIN v}

Reverse(v) == [k \in 1..Len(v) |-> v[Len(v) + 1 - k]]

shuffle(v, engine) ==
    CASE engine = "asc" -> {v}
      [] engine = "desc" -> {Reverse(v)}
      [] OTHER -> Perms(Range(v))

(***************************************************************************)
(* The grid a search works on, and a write through that reference.         *)
(***************************************************************************)
Grid ==
    CASE gref = "board" -> board
      [] gref = "solution" -> solution
      [] OTHER -> tmp

SetGrid(g) ==
    /\ board' = IF gref = "board" THEN g ELSE board
    /\ solution' = IF gref = "solution" THEN g ELSE solution
    /\ tmp' = IF gref = "tmp" THEN g ELSE tmp

Top == stack[Len(stack)]

Pop == SubSeq(stack, 1, Len(stack) - 1)

Frame(r, c, cands) == [row |-> r, col |-> c, candidates |-> cands, idx |-> 1]

Advance == [stack EXCEPT ![Len(stack)].idx = @ + 1]


grids == <<board, solution, tmp>>
game == <<board, solution, fixed>>
cpVars == <<positions, i, cellsToRemove, backup, difficulty>>
csVars == <<count, limit, writes>>
callVars == <<args, retBool, retMove>>

(***************************************************************************)
(* solveBacktrack                                                          *)
(***************************************************************************)
UndoSkipped(grid, row, col) == grid

\* grid[row][col] = EMPTY after a failed recursive call
Undo(grid, row, col) == [grid EXCEPT ![row][col] = EMPTY]

\* Entry of an activation: findBestCell, getCandidates, std::shuffle.
SbEnter ==
    /\ pc = "sb_enter"
    /\ LET b == findBestCell(Grid)
       IN IF ~b.found
          THEN /\ found' = TRUE
               /\ pc' = "sb_ret"
               /\ UNCHANGED stack
          ELSE /\ \E cands \in shuffle(getCandidates(Grid, b.row, b.col), rng) :
                      stack' = Append(stack, Frame(b.row, b.col, cands))
               /\ pc' = "sb_loop"
               /\ UNCHANGED found
    /\ UNCHANGED <<grids, fixed, rng, running, op, gref, csVars, cpVars, callVars, entry>>

\* One turn of the candidate loop of the innermost activation: assign and
\* recurse, or leave the loop and return false.
SbLoop ==
    /\ pc = "sb_loop"
    /\ LET f == Top
       IN IF f.idx > Len(f.candidates)
          THEN /\ stack' = Pop
               /\ found' = FALSE
               /\ pc' = "sb_ret"
               /\ UNCHANGED grids
          ELSE LET num == f.candidates[f.idx]
               IN IF isValidInGrid(Grid, f.row, f.col, num)
                  THEN /\ SetGrid([Grid EXCEPT ![f.row][f.col] = num])
                       /\ pc' = "sb_enter"
                       /\ UNCHANGED <<stack, found>>
                  ELSE /\ stack' = Advance
                       /\ UNCHANGED <<grids, pc, found>>
    /\ UNCHANGED <<fixed, rng, running, op, gref, csVars, cpVars, callVars, entry>>

\* A recursive call has returned into the innermost waiting activation:
\* propagate true, or undo the assignment and go on with the loop.
SbReturn ==
    /\ pc = "sb_ret"
    /\ stack # << >>
    /\ LET f == Top
       IN IF found
          THEN /\ stack' = Pop
               /\ UNCHANGED <<grids, pc>>
          ELSE /\ SetGrid(Undo(Grid, f.row, f.col))
               /\ stack' = Advance
               /\ pc' = "sb_loop"
    /\ UNCHANGED <<fixed, rng, running, op, gref, found, csVars, cpVars, callVars, entry>>

\* The outermost activation has returned to the handler that called it.
SbReturned == pc = "sb_ret" /\ stack = << >>


(***************************************************************************)
(* countSolutions                                                          *)
(***************************************************************************)
\* if (count >= limit) return;   on entry
capReached(c, l) == c >= l

loopNeverStops(c, l) == FALSE

\* if (count >= limit) return;   in the candidate loop
loopStops(c, l) == c >= l

CsEnter ==
    /\ pc = "cs_enter"
    /\ IF capReached(count, limit)
       THEN /\ pc' = "cs_ret"
            /\ UNCHANGED <<stack, count>>
       ELSE LET b == findBestCell(Grid)
            IN IF ~b.found
               THEN /\ count' = count + 1
                    /\ pc' = "cs_ret"
                    /\ UNCHANGED stack
               ELSE /\ stack' = Append(stack, Frame(b.row, b.col,
                                                    getCandidates(Grid, b.row, b.col)))
                    /\ pc' = "cs_loop"
                    /\ UNCHANGED count
    /\ UNCHANGED <<grids, fixed, rng, running, op, gref, found, limit, writes,
                   cpVars, callVars, entry>>

CsLoop ==
    /\ pc = "cs_loop"
    /\ LET f == Top
       IN IF f.idx > Len(f.candidates) \/ loopStops(count, limit)
          THEN /\ stack' = Pop
               /\ pc' = "cs_ret"
               /\ UNCHANGED <<grids, writes>>
          ELSE /\ SetGrid([Grid EXCEPT ![f.row][f.col] = f.candidates[f.idx]])
               /\ writes' = IF count >= limit THEN writes + 1 ELSE writes
               /\ pc' = "cs_enter"
               /\ UNCHANGED stack
    /\ UNCHANGED <<fixed, rng, running, op, gref, found, count, limit,
                   cpVars, callVars, entry>>

CsReturn ==
    /\ pc = "cs_ret"
    /\ stack # << >>
    /\ SetGrid([Grid EXCEPT ![Top.row][Top.col] = EMPTY])
    /\ stack' = Advance
    /\ pc' = "cs_loop"
    /\ UNCHANGED <<fixed, rng, running, op, gref, found, csVars, cpVars, callVars, entry>>

CsReturned == pc = "cs_ret" /\ stack = << >>

uniqueIfAny(c) == c >= 1

\* return solutionCount == 1;
uniqueFromCount(c) == c = 1


(***************************************************************************)
(* Logical hint engine                                                     *)
(***************************************************************************)
\* Strategy 1: the empty cells with exactly one candidate.
nakedSinglesUpToTwo(b) ==
    {k \in Cells : /\ b[k \div SIZE][k % SIZE] = EMPTY
                   /\ Len(getCandidates(b, k \div SIZE, k % SIZE)) \in {1, 2}}

nakedSingles(b) ==
    {k \in Cells : /\ b[k \div SIZE][k % SIZE] = EMPTY
                   /\ Len(getCandidates(b, k \div SIZE, k % SIZE)) = 1}

possibleCols(b, r, num) == {c \in Idx : b[r][c] = EMPTY /\ isValidMove(b, r, c, num)}

possibleRows(b, c, num) == {r \in Idx : b[r][c] = EMPTY /\ isValidMove(b, r, c, num)}

\* box = boxR * 3 + boxC; cells as k = r * SIZE + c
possibleCells(b, box, num) ==
    {k \in Cells : /\ (k \div SIZE) \div 3 = box \div 3
                   /\ (k % SIZE) \div 3 = box % 3
                   /\ b[k \div SIZE][k % SIZE] = EMPTY
                   /\ isValidMove(b, k \div SIZE, k % SIZE, num)}

\* Strategy 2 for one number: rows, then columns, then boxes.
hiddenSingle(b, num) ==
    LET rows == {r \in Idx : Cardinality(possibleCols(b, r, num)) = 1}
        cols == {c \in Idx : Cardinality(possibleRows(b, c, num)) = 1}
        boxes == {x \in Idx : Cardinality(possibleCells(b, x, num)) = 1}
    IN IF rows # {}
       THEN LET r == Min(rows) IN Move(r, Min(possibleCols(b, r, num)), num)
       ELSE IF cols # {}
       THEN LET c == Min(cols) IN Move(Min(possibleRows(b, c, num)), c, num)
       ELSE IF boxes # {}
       THEN LET k == Min(possibleCells(b, Min(boxes), num))
            IN Move(k \div SIZE, k % SIZE, num)
       ELSE NoMove

RECURSIVE hiddenSingleFrom(_, _)
hiddenSingleFrom(b, num) ==
    IF num > SIZE THEN NoMove
    ELSE LET m == hiddenSingle(b, num)
         IN IF m.value # -1 THEN m ELSE hiddenSingleFrom(b, num + 1)

getLogicalMoveHiddenFirst(b) == hiddenSingleFrom(b, 1)

getLogicalMove(b) ==
    LET ns == nakedSingles(b)
    IN IF ns # {}
       THEN LET k == Min(ns)
            IN Move(k \div SIZE, k % SIZE, getCandidates(b, k \div SIZE, k % SIZE)[1])
       ELSE hiddenSingleFrom(b, 1)

\* getHint: the logical move, else the reference value of the first cell
\* with the fewest (but at least one) candidates.
getHint(b, sol) ==
    LET hint == getLogicalMove(b)
    IN IF hint.value # -1 THEN hint
       ELSE LET cnt == candidateCounts(b)
                P == {k \in DOMAIN cnt : cnt[k] > 0}
            IN IF P = {} THEN NoMove
               ELSE LET m == Min({cnt[k] : k \in P})
                        k == Min({j \in P : cnt[j] = m})
                    IN Move(k \div SIZE, k % SIZE, sol[k \div SIZE][k % SIZE])

getHintForCell(b, fx, sol, row, col) ==
    IF row < 0 \/ row >= SIZE \/ col < 0 \/ col >= SIZE THEN Move(-1, -1, -1)
    ELSE IF b[row][col] # EMPTY THEN Move(-1, -1, -2)
    ELSE IF fx[row][col] THEN Move(-1, -1, -3)
    ELSE Move(row, col, sol[row][col])

\* getNextMove after a successful fallback solve of tempBoard: the first
\* empty cell of the board with tempBoard's value.
firstEmptyMove(b, t) ==
    LET E == {k \in Cells : b[k \div SIZE][k % SIZE] = EMPTY}
    IN IF E = {} THEN NoMove
       ELSE LET k == Min(E) IN Move(k \div SIZE, k % SIZE, t[k \div SIZE][k % SIZE])

(***************************************************************************)
(* makeMove.  A throw inside the try block is caught by                    *)
(* catch (const std::exception&): both std::out_of_range and               *)
(* std::invalid_argument derive from std::exception.                       *)
(***************************************************************************)
StdExceptions == {"out_of_range", "invalid_argument", "runtime_error"}

makeMoveThrowsFixedIgnored(b, fx, row, col, value) ==
    IF row < 0 \/ row >= SIZE \/ col < 0 \/ col >= SIZE THEN "out_of_range"
    ELSE IF value < 0 \/ value > SIZE THEN "invalid_argument"
    ELSE IF value = EMPTY THEN "none"
    ELSE IF ~isValidMove(b, row, col, value) THEN "invalid_argument"
    ELSE "none"

makeMoveThrows(b, fx, row, col, value) ==
    IF row < 0 \/ row >= SIZE \/ col < 0 \/ col >= SIZE THEN "out_of_range"
    ELSE IF fx[row][col] THEN "invalid_argument"
    ELSE IF value < 0 \/ value > SIZE THEN "invalid_argument"
    ELSE IF value = EMPTY THEN "none"
    ELSE IF ~isValidMove(b, row, col, value) THEN "invalid_argument"
    ELSE "none"

makeMoveUnchecked(b, fx, row, col, value) ==
    LET thrown == makeMoveThrows(b, fx, row, col, value)
    IN IF thrown = "out_of_range"
       THEN [ret |-> FALSE, board |-> b, escaped |-> FALSE]
       ELSE [ret |-> TRUE, board |-> [b EXCEPT ![row][col] = value], escaped |-> FALSE]

makeMove(b, fx, row, col, value) ==
    LET thrown == makeMoveThrows(b, fx, row, col, value)
    IN IF thrown = "none"
       THEN [ret |-> TRUE, board |-> [b EXCEPT ![row][col] = value], escaped |-> FALSE]
       ELSE [ret |-> FALSE, board |-> b, escaped |-> thrown \notin StdExceptions]


(***************************************************************************)
(* Handlers.  A handler starts at pc = "idle" and is back at "idle" when   *)
(* it has returned; op names the running (or the last) handler.  args,     *)
(* retBool, retMove and entry record the last call and are cleared when    *)
(* the next handler starts; the locals of a search (its grid reference,    *)
(* the local grid copy, the counter) are cleared when its handler returns. *)
(***************************************************************************)
Args(r, c, v) == [row |-> r, col |-> c, value |-> v]

NoCall == args' = Args(0, 0, 0) /\ retBool' = FALSE /\ retMove' = NoMove

NoLocals ==
    /\ gref' = "board"
    /\ tmp' = EmptyGrid
    /\ found' = FALSE
    /\ count' = 0
    /\ limit' = 0
    /\ writes' = 0

\* The puzzle of the session has been created.
Created == op \notin {"none", "createPuzzle", "newGameFallback"} \/ (op = "createPuzzle" /\ pc = "idle")

\* bool solvePuzzle() { return solveBacktrack(board); }
SolvePuzzle ==
    /\ pc = "idle"
    /\ op' = "solvePuzzle"
    /\ gref' = "board"
    /\ entry' = board
    /\ pc' = "sb_enter"
    /\ NoCall
    /\ UNCHANGED <<grids, fixed, rng, running, stack, found, csVars, cpVars>>

\* solution.assign(...EMPTY); return solveBacktrack(solution);
\* Called on its own only with an engine of one shuffle per vector.
GenerateSolution ==
    /\ pc = "idle"
    /\ rng # "any"
    /\ op' = "generateSolution"
    /\ solution' = EmptyGrid
    /\ gref' = "solution"
    /\ entry' = EmptyGrid
    /\ pc' = "sb_enter"
    /\ NoCall
    /\ UNCHANGED <<board, tmp, fixed, rng, running, stack, found, csVars, cpVars>>

\* newGame() -> createPuzzle(diff) -> generateSolution()
NewGame(diff) ==
    /\ pc = "idle"
    /\ op = "none"
    /\ op' = "createPuzzle"
    /\ difficulty' = diff
    /\ solution' = EmptyGrid
    /\ gref' = "solution"
    /\ entry' = EmptyGrid
    /\ pc' = "sb_enter"
    /\ NoCall
    /\ UNCHANGED <<board, tmp, fixed, rng, running, stack, found, csVars, positions, i,
                   cellsToRemove, backup>>

\* hasUniqueSolution(): testGrid = board; countSolutions(testGrid, solutionCount, 2)
HasUniqueSolution ==
    /\ pc = "idle"
    /\ op' = "hasUniqueSolution"
    /\ tmp' = board
    /\ gref' = "tmp"
    /\ entry' = board
    /\ count' = 0
    /\ limit' = 2
    /\ writes' = 0
    /\ pc' = "cs_enter"
    /\ NoCall
    /\ UNCHANGED <<game, rng, running, stack, found, cpVars>>

\* countSolutions(grid, count, lim) on a copy of the board, count = 0
CountSolutions(lim) ==
    /\ pc = "idle"
    /\ op' = "countSolutions"
    /\ tmp' = board
    /\ gref' = "tmp"
    /\ entry' = board
    /\ count' = 0
    /\ limit' = lim
    /\ writes' = 0
    /\ pc' = "cs_enter"
    /\ NoCall
    /\ UNCHANGED <<game, rng, running, stack, found, cpVars>>

\* getNextMove(): the logical move, else tempBoard = board and a solve of it
GetNextMove ==
    /\ pc = "idle"
    /\ op' = "getNextMove"
    /\ args' = Args(0, 0, 0)
    /\ retBool' = FALSE
    /\ LET logicalMove == getLogicalMove(board)
       IN IF logicalMove.value # -1
          THEN /\ retMove' = logicalMove
               /\ entry' = EmptyGrid
               /\ UNCHANGED <<tmp, gref, pc>>
          ELSE /\ tmp' = board
               /\ gref' = "tmp"
               /\ entry' = board
               /\ pc' = "sb_enter"
               /\ retMove' = NoMove
    /\ UNCHANGED <<game, rng, running, stack, found, csVars, cpVars>>

\* The round trip of a fresh puzzle: clear the clue at (row, col) on a copy,
\* see whether the copy still has one completion, then solve the copy.
RoundTrip(row, col) ==
    /\ pc = "idle"
    /\ op = "createPuzzle"
    /\ fixed[row][col]
    /\ op' = "roundTrip"
    /\ args' = Args(row, col, 0)
    /\ retBool' = FALSE
    /\ retMove' = NoMove
    /\ tmp' = [board EXCEPT ![row][col] = EMPTY]
    /\ gref' = "tmp"
    /\ entry' = tmp'
    /\ count' = 0
    /\ limit' = 2
    /\ writes' = 0
    /\ pc' = "cs_enter"
    /\ UNCHANGED <<game, rng, running, stack, found, cpVars>>

RowMajor == [k \in 1..(SIZE * SIZE) |-> <<(k - 1) \div SIZE, (k - 1) % SIZE>>]

ClearAll(g, ps, n, v) ==
    [r \in Idx |-> [c \in Idx |->
        IF \E k \in 1..n : ps[k] = <<r, c>> THEN v ELSE g[r][c]]]

removalsSwapped(diff, offset) == SIZE * SIZE - diff + offset

\* targetClues = difficulty + offset; cellsToRemove = SIZE * SIZE - targetClues
removals(diff, offset) == SIZE * SIZE - (diff + offset)

\* The search started by a handler has returned to it.
SbFinish ==
    /\ SbReturned
    /\ CASE op = "createPuzzle" ->
              IF found
              THEN \* board = solution; fixed.assign(true); shuffle; targetClues
                   /\ board' = solution
                   /\ fixed' = AllFixed(TRUE)
                   /\ \E ps \in shuffle(RowMajor, rng) : positions' = ps
                   /\ \E offset \in 0..MaxOffset :
                          cellsToRemove' = removals(difficulty, offset)
                   /\ i' = 0
                   /\ pc' = "cp_loop"
                   /\ UNCHANGED <<solution, tmp, op, gref, found, backup, retBool, retMove>>
              ELSE \* throw std::runtime_error, caught by newGame(): the fallback
                   /\ op' = "newGameFallback"
                   /\ solution' = EmptyGrid
                   /\ pc' = "sb_enter"
                   /\ UNCHANGED <<board, tmp, fixed, gref, found, positions, i,
                                  cellsToRemove, backup, retBool, retMove>>
           [] op = "newGameFallback" ->
              /\ \E ps \in shuffle(RowMajor, rng) : positions' = ps
              /\ board' = ClearAll(solution, positions', SIZE * SIZE - difficulty, EMPTY)
              /\ fixed' = ClearAll(AllFixed(TRUE), positions', SIZE * SIZE - difficulty, FALSE)
              /\ pc' = "idle"
              /\ gref' = "board"
              /\ found' = FALSE
              /\ UNCHANGED <<solution, tmp, op, i, cellsToRemove, backup, retBool, retMove>>
           [] op = "getNextMove" ->
              /\ retMove' = IF found THEN firstEmptyMove(board, tmp) ELSE NoMove
              /\ pc' = "idle"
              /\ gref' = "board"
              /\ tmp' = EmptyGrid
              /\ found' = FALSE
              /\ UNCHANGED <<board, solution, fixed, op, positions, i, cellsToRemove,
                             backup, retBool>>
           [] OTHER ->
              \* solvePuzzle, generateSolution, the round trip: the search's result
              /\ retBool' = found
              /\ pc' = "idle"
              /\ gref' = "board"
              /\ tmp' = EmptyGrid
              /\ found' = FALSE
              /\ UNCHANGED <<board, solution, fixed, op, positions, i, cellsToRemove,
                             backup, retMove>>
    /\ UNCHANGED <<rng, running, stack, csVars, difficulty, args, entry>>

RevertSkipped(b, row, col, v) == b

\* board[row][col] = backup
Revert(b, row, col, v) == [b EXCEPT ![row][col] = v]

\* One turn of createPuzzle's removal loop, up to the call of
\* hasUniqueSolution(); past the loop, createPuzzle returns.
CpLoop ==
    /\ pc = "cp_loop"
    /\ IF i < cellsToRemove /\ i < Len(positions)
       THEN LET row == positions[i + 1][1]
                col == positions[i + 1][2]
                cleared == [board EXCEPT ![row][col] = EMPTY]
            IN /\ backup' = board[row][col]
               /\ board' = cleared
               /\ fixed' = [fixed EXCEPT ![row][col] = FALSE]
               /\ tmp' = cleared
               /\ gref' = "tmp"
               /\ entry' = cleared
               /\ count' = 0
               /\ limit' = 2
               /\ writes' = 0
               /\ pc' = "cs_enter"
       ELSE /\ pc' = "idle"
            /\ entry' = EmptyGrid
            /\ UNCHANGED <<board, fixed, tmp, gref, count, limit, writes, backup>>
    /\ UNCHANGED <<solution, rng, running, op, stack, found, positions, i, cellsToRemove,
                   difficulty, callVars>>

\* countSolutions has returned to hasUniqueSolution(), and that to its caller.
CsFinish ==
    /\ CsReturned
    /\ CASE op = "createPuzzle" ->
              LET row == positions[i + 1][1]
                  col == positions[i + 1][2]
              IN /\ IF ~uniqueFromCount(count)
                    THEN /\ board' = Revert(board, row, col, backup)
                         /\ fixed' = [fixed EXCEPT ![row][col] = TRUE]
                    ELSE UNCHANGED <<board, fixed>>
                 /\ i' = i + 1
                 /\ pc' = "cp_loop"
                 /\ NoLocals
                 /\ UNCHANGED retBool
           [] op = "roundTrip" ->
              \* the copy is as it was; now solve it
              /\ retBool' = uniqueFromCount(count)
              /\ pc' = "sb_enter"
              /\ count' = 0
              /\ limit' = 0
              /\ writes' = 0
              /\ UNCHANGED <<board, fixed, i, tmp, gref, found>>
           [] OTHER ->
              /\ retBool' = uniqueFromCount(count)
              /\ pc' = "idle"
              /\ NoLocals
              /\ UNCHANGED <<board, fixed, i>>
    /\ UNCHANGED <<solution, rng, running, op, stack, positions, cellsToRemove, backup,
                   difficulty, args, retMove, entry>>

MakeMove(row, col, value) ==
    /\ pc = "idle"
    /\ op' = "makeMove"
    /\ args' = Args(row, col, value)
    /\ LET m == makeMove(board, fixed, row, col, value)
       IN /\ board' = m.board
          /\ retBool' = m.ret
          /\ running' = ~m.escaped
    /\ retMove' = NoMove
    /\ entry' = EmptyGrid
    /\ UNCHANGED <<solution, fixed, tmp, rng, pc, gref, stack, found, csVars, cpVars>>

GetHintForCell(row, col) ==
    /\ pc = "idle"
    /\ op' = "getHintForCell"
    /\ args' = Args(row, col, 0)
    /\ retMove' = getHintForCell(board, fixed, solution, row, col)
    /\ retBool' = FALSE
    /\ entry' = EmptyGrid
    /\ UNCHANGED <<grids, fixed, rng, running, pc, gref, stack, found, csVars, cpVars>>

GetHint ==
    /\ pc = "idle"
    /\ op' = "getHint"
    /\ retMove' = getHint(board, solution)
    /\ args' = Args(0, 0, 0)
    /\ retBool' = FALSE
    /\ entry' = EmptyGrid
    /\ UNCHANGED <<grids, fixed, rng, running, pc, gref, stack, found, csVars, cpVars>>

IsValidMove(row, col, num) ==
    /\ pc = "idle"
    /\ op' = "isValidMove"
    /\ args' = Args(row, col, num)
    /\ retBool' = isValidMove(board, row, col, num)
    /\ retMove' = NoMove
    /\ entry' = EmptyGrid
    /\ UNCHANGED <<grids, fixed, rng, running, pc, gref, stack, found, csVars, cpVars>>

\* findBestCell(grid, row, col) on the board; row and col are read only
\* when it returns true.
FindBestCell ==
    /\ pc = "idle"
    /\ op' = "findBestCell"
    /\ args' = Args(0, 0, 0)
    /\ LET b == findBestCell(board)
       IN /\ retBool' = b.found
          /\ retMove' = IF b.found THEN Move(b.row, b.col, EMPTY) ELSE NoMove
    /\ entry' = EmptyGrid
    /\ UNCHANGED <<grids, fixed, rng, running, pc, gref, stack, found, csVars, cpVars>>

GetLogicalMove ==
    /\ pc = "idle"
    /\ op' = "getLogicalMove"
    /\ args' = Args(0, 0, 0)
    /\ retBool' = FALSE
    /\ retMove' = getLogicalMove(board)
    /\ entry' = EmptyGrid
    /\ UNCHANGED <<grids, fixed, rng, running, pc, gref, stack, found, csVars, cpVars>>

(***************************************************************************)
(* Inputs of the function-level specifications: a complete legal grid      *)
(* with some of the cells of HoleSeq emptied, and possibly the first cell  *)
(* of HoleSeq overwritten with any value.                                  *)
(***************************************************************************)
MaxHoles == 7
MaxLimit == 3

BaseRows == <<
    <<1, 2, 3, 4, 5, 6, 7, 8, 9>>,
    <<4, 5, 6, 7, 8, 9, 1, 2, 3>>,
    <<7, 8, 9, 1, 2, 3, 4, 5, 6>>,
    <<2, 3, 1, 6, 7, 4, 8, 9, 5>>,
    <<8, 7, 5, 9, 1, 2, 3, 6, 4>>,
    <<6, 9, 4, 5, 3, 8, 2, 1, 7>>,
    <<3, 1, 7, 2, 6, 5, 9, 4, 8>>,
    <<5, 4, 2, 8, 9, 7, 6, 3, 1>>,
    <<9, 6, 8, 3, 4, 1, 5, 7, 2>> >>

BaseGrid == [r \in Idx |-> [c \in Idx |-> BaseRows[r + 1][c + 1]]]

HoleSeq == << <<0, 5>>, <<0, 3>>, <<3, 3>>, <<3, 5>>, <<0, 4>>, <<6, 4>>, <<6, 5>>,
              <<6, 6>>, <<7, 4>>, <<7, 6>> >>

Holes == {HoleSeq[k] : k \in 1..(IF MaxHoles < Len(HoleSeq) THEN MaxHoles ELSE Len(HoleSeq))}

Punch(g, H) == [r \in Idx |-> [c \in Idx |-> IF <<r, c>> \in H THEN EMPTY ELSE g[r][c]]]

TestGrids ==
    {Punch(BaseGrid, H) : H \in SUBSET Holes}
    \cup {[Punch(BaseGrid, H) EXCEPT ![HoleSeq[1][1]][HoleSeq[1][2]] = v] :
            H \in {X \in SUBSET Holes : HoleSeq[1] \in X}, v \in 1..SIZE}

InitCommon ==
    /\ solution = EmptyGrid
    /\ fixed = AllFixed(FALSE)
    /\ running = TRUE
    /\ pc = "idle"
    /\ op = "none"
    /\ gref = "board"
    /\ tmp = EmptyGrid
    /\ stack = << >>
    /\ found = FALSE
    /\ count = 0
    /\ limit = 0
    /\ writes = 0
    /\ positions = << >>
    /\ i = 0
    /\ cellsToRemove = 0
    /\ backup = 0
    /\ difficulty = 0
    /\ args = Args(0, 0, 0)
    /\ retBool = FALSE
    /\ retMove = NoMove
    /\ entry = EmptyGrid

(***************************************************************************)
(* SpecSolve: solveBacktrack on the test grids, under every shuffle.       *)
(***************************************************************************)
InitSolve ==
    /\ \/ board \in TestGrids /\ rng = "any"
       \/ board = EmptyGrid /\ rng \in {"asc", "desc"}
    /\ InitCommon

NextSolve ==
    \/ SolvePuzzle
    \/ GenerateSolution
    \/ SbEnter
    \/ SbLoop
    \/ SbReturn
    \/ SbFinish

SpecSolve == InitSolve /\ [][NextSolve]_vars


(***************************************************************************)
(* Reference notions the claims are stated with.  They are defined from    *)
(* the rules of Sudoku, not from the program.                              *)
(***************************************************************************)
Units ==
    {{<<r, c>> : c \in Idx} : r \in Idx}
    \cup {{<<r, c>> : r \in Idx} : c \in Idx}
    \cup {{<<r, c>> \in Idx \X Idx : r \div 3 = x \div 3 /\ c \div 3 = x % 3} : x \in Idx}

\* No value outside 0..9, and no non-zero value twice in a row, column or box.
Legal(g) ==
    /\ \A r \in Idx : \A c \in Idx : g[r][c] \in 0..SIZE
    /\ \A u \in Units : \A p \in u : \A q \in u :
           (p # q /\ g[p[1]][p[2]] # EMPTY) => g[p[1]][p[2]] # g[q[1]][q[2]]

\* Every row, column and box is a permutation of 1..9.
Solved(g) == \A u \in Units : {g[p[1]][p[2]] : p \in u} = 1..SIZE

\* g keeps every non-empty cell of e.
Extends(g, e) == \A r \in Idx : \A c \in Idx : e[r][c] # EMPTY => g[r][c] = e[r][c]

Clash(g, r, c, v) ==
    \E u \in Units : <<r, c>> \in u /\ \E q \in u : q # <<r, c>> /\ g[q[1]][q[2]] = v

\* The legal completions of g, by exhaustive row-major extension.
RECURSIVE Completions(_)
Completions(g) ==
    LET E == {k \in Cells : g[k \div SIZE][k % SIZE] = EMPTY}
    IN IF E = {} THEN (IF Solved(g) THEN {g} ELSE {})
       ELSE LET r == Min(E) \div SIZE
                c == Min(E) % SIZE
            IN UNION {Completions([g EXCEPT ![r][c] = v]) :
                        v \in {w \in 1..SIZE : ~Clash(g, r, c, w)}}

NumEmpty(g) == Cardinality({k \in Cells : g[k \div SIZE][k % SIZE] = EMPTY})

(***************************************************************************)
(* C1: solveBacktrack, given a grid whose filled cells are mutually legal, *)
(* returns true exactly when the grid has a legal completion, whatever the *)
(* shuffles; when it returns true the grid is complete, every row, column  *)
(* and box is a permutation of 1..9, and every cell filled on entry keeps  *)
(* its value.  On the all-empty grid it returns true.                      *)
(***************************************************************************)
C1_SolveSoundComplete ==
    (SbReturned /\ Legal(entry)) =>
        /\ found <=> (IF entry = EmptyGrid THEN TRUE ELSE Completions(entry) # {})
        /\ found => (isComplete(Grid) /\ Solved(Grid) /\ Extends(Grid, entry))

\* A solve that had to choose and fill at least two cells has returned true.
C1_Witness ==
    /\ SbReturned
    /\ found
    /\ Legal(entry)
    /\ NumEmpty(entry) >= 2
    /\ rng = "any"
    /\ Solved(Grid)

\* generateSolution has returned true on the all-empty grid.
C1_WitnessEmpty == SbReturned /\ found /\ entry = EmptyGrid /\ op = "generateSolution"

(***************************************************************************)
(* C2: whenever solveBacktrack returns false, the grid is cell for cell    *)
(* the grid it was given, for every input grid and every shuffle.          *)
(***************************************************************************)
C2_FailureRestoresGrid == (SbReturned /\ ~found) => Grid = entry

\* A failed search that made (and reverted) at least one assignment.
C2_Witness ==
    /\ SbReturned
    /\ ~found
    /\ Grid = entry
    /\ LET b == findBestCell(entry)
       IN b.found /\ Len(getCandidates(entry, b.row, b.col)) >= 1


(***************************************************************************)
(* Spec: a session.  The constructor leaves the three grids empty;         *)
(* gameLoop() calls newGame() before it reads any command.                 *)
(***************************************************************************)
Difficulties == {EASY, MEDIUM, HARD, EXPERT}

Init ==
    /\ board = EmptyGrid
    /\ rng \in {"asc", "desc"}
    /\ InitCommon

\* A session in which every shuffle leaves its vector as it is.
InitAsc ==
    /\ board = EmptyGrid
    /\ rng = "asc"
    /\ InitCommon

Next ==
    \/ \E diff \in Difficulties : NewGame(diff)
    \/ SbEnter
    \/ SbLoop
    \/ SbReturn
    \/ SbFinish
    \/ CpLoop
    \/ CsEnter
    \/ CsLoop
    \/ CsReturn
    \/ CsFinish
    \/ op = "createPuzzle" /\ HasUniqueSolution

Spec == Init /\ [][Next]_vars


(***************************************************************************)
(* SpecCount: countSolutions and hasUniqueSolution on the test grids.      *)
(***************************************************************************)
InitCount ==
    /\ board \in TestGrids
    /\ rng = "any"
    /\ InitCommon

NextCount ==
    \/ op = "none" /\ \E lim \in 1..MaxLimit : CountSolutions(lim)
    \/ op = "none" /\ HasUniqueSolution
    \/ CsEnter
    \/ CsLoop
    \/ CsReturn
    \/ CsFinish

SpecCount == InitCount /\ [][NextCount]_vars

Counting == pc \in {"cs_enter", "cs_loop", "cs_ret"}

MinOf(a, b) == IF a <= b THEN a ELSE b

(***************************************************************************)
(* C4: on a grid whose filled cells are mutually legal, with limit >= 1    *)
(* and count = 0 at the start, countSolutions ends with count equal to     *)
(* min(N, limit), N the number of legal completions; count never exceeds   *)
(* limit, and no cell is assigned once count has reached limit.            *)
(* hasUniqueSolution returns true exactly when N = 1.                      *)
(***************************************************************************)
C4_CountIsCappedN ==
    /\ Counting => ((count <= limit /\ writes = 0) \/ ~Legal(entry))
    /\ (CsReturned /\ Legal(entry)) =>
           count = MinOf(Cardinality(Completions(entry)), limit)
    /\ (pc = "idle" /\ op = "hasUniqueSolution" /\ Legal(entry)) =>
           (retBool <=> Cardinality(Completions(entry)) = 1)

\* The cap has cut a count short: three completions, limit 2, count 2.
C4_Witness ==
    /\ CsReturned
    /\ Legal(entry)
    /\ limit = 2
    /\ count = 2
    /\ Cardinality(Completions(entry)) >= 3

(***************************************************************************)
(* SpecValid: isValidMove on boards with and without conflicts, for        *)
(* positions and values in and out of range.                               *)
(***************************************************************************)
ScenarioB == [EmptyGrid EXCEPT ![0][0] = 5, ![0][1] = 5]

ValidGrids ==
    {ScenarioB, EmptyGrid}
    \cup {Punch(BaseGrid, {HoleSeq[k] : k \in 1..n}) : n \in 0..Cardinality(Holes)}
    \cup {[Punch(BaseGrid, Holes) EXCEPT ![HoleSeq[1][1]][HoleSeq[1][2]] = v] : v \in 1..SIZE}

InitValid ==
    /\ board \in ValidGrids
    /\ rng = "any"
    /\ InitCommon

NextValid ==
    \E row \in -1..SIZE : \E col \in -1..SIZE : \E num \in 0..(SIZE + 1) :
        op = "none" /\ IsValidMove(row, col, num)

SpecValid == InitValid /\ [][NextValid]_vars

InRange(row, col) == row \in Idx /\ col \in Idx

(***************************************************************************)
(* C9: isValidMove(row, col, num) is true exactly when row and col are in  *)
(* 0..8, num is in 1..9 and no cell other than (row, col) in its row, its  *)
(* column or its box holds num; out of range it is false (and the board,   *)
(* a function on 0..8 x 0..8 only, is not applied there); the board is     *)
(* never modified.                                                         *)
(***************************************************************************)
C9_IsValidMoveExact ==
    [][(op = "none" /\ op' = "isValidMove") =>
          /\ board' = board
          /\ retBool' <=> /\ InRange(args'.row, args'.col)
                          /\ args'.value \in 1..SIZE
                          /\ ~Clash(board, args'.row, args'.col, args'.value)]_vars

\* Scenario B: with (0,0) = 5 and (0,1) = 5, isValidMove(0, 2, 5) is false.
C9_Witness ==
    /\ op = "isValidMove"
    /\ board[0][0] = 5
    /\ board[0][1] = 5
    /\ args = Args(0, 2, 5)
    /\ ~retBool

(***************************************************************************)
(* Claims about createPuzzle, checked under Spec.                          *)
(***************************************************************************)
PuzzleReturned == op = "createPuzzle" /\ pc = "idle"

Clues == {k \in Cells : fixed[k \div SIZE][k % SIZE]}

\* The positions among the first cellsToRemove whose clear was reverted.
Reverted == {k \in 1..cellsToRemove : fixed[positions[k][1]][positions[k][2]]}

(***************************************************************************)
(* C3: the board createPuzzle produces has exactly one legal completion    *)
(* and it is the stored solution: the solution is a complete legal grid    *)
(* that keeps every clue, the clues are the non-empty cells, and           *)
(* countSolutions(board, 2), run by hasUniqueSolution on the produced      *)
(* board, ends with count = 1.  The first three hold at every turn of the  *)
(* removal loop as well.                                                   *)
(***************************************************************************)
C3_PuzzleUniqueIsSolution ==
    /\ (PuzzleReturned \/ pc = "cp_loop") =>
           /\ Solved(solution)
           /\ Extends(solution, board)
           /\ \A r \in Idx : \A c \in Idx : fixed[r][c] <=> board[r][c] # EMPTY
    /\ (op = "hasUniqueSolution" /\ CsReturned) => count = 1
    /\ (op = "hasUniqueSolution" /\ pc = "idle") => retBool

\* hasUniqueSolution has confirmed an Expert puzzle one of whose clears was
\* reverted.
C3_Witness ==
    /\ op = "hasUniqueSolution"
    /\ pc = "idle"
    /\ retBool
    /\ difficulty = EXPERT
    /\ Reverted # {}
    /\ NumEmpty(board) >= SIZE * SIZE - 2 * EXPERT

(***************************************************************************)
(* C10 as stated: an Expert puzzle has between 20 and 30 clues.            *)
(***************************************************************************)
C10_ExpertCluesIn20To30 ==
    (PuzzleReturned /\ difficulty = EXPERT) =>
        (Cardinality(Clues) >= 20 /\ Cardinality(Clues) <= 30)

(***************************************************************************)
(* C10, as the code has it: the target of an Expert puzzle is 20 plus an   *)
(* offset in 0..5; createPuzzle tries the first 81 - target positions only *)
(* and the puzzle has the target number of clues plus one for every clear  *)
(* that was reverted: at least 20 clues, and more than 30 when enough      *)
(* clears are reverted.                                                    *)
(***************************************************************************)
C10_ExpertCluesTargetPlusReverted ==
    LET target == SIZE * SIZE - cellsToRemove
    IN /\ (op = "createPuzzle" /\ pc = "cp_loop" /\ difficulty = EXPERT) =>
              (target >= EXPERT /\ target <= EXPERT + MaxOffset)
       /\ (PuzzleReturned /\ difficulty = EXPERT) =>
              /\ target >= EXPERT
              /\ target <= EXPERT + MaxOffset
              /\ Cardinality(Clues) = target + Cardinality(Reverted)
              /\ Cardinality(Clues) >= 20

\* An Expert puzzle with more than 30 clues.
C10_Witness == PuzzleReturned /\ difficulty = EXPERT /\ Cardinality(Clues) > 30

(***************************************************************************)
(* SpecRoundTrip: the round trip of every clue of the Expert puzzles.      *)
(***************************************************************************)
NextRoundTrip ==
    \/ NewGame(EXPERT)
    \/ SbEnter
    \/ SbLoop
    \/ SbReturn
    \/ SbFinish
    \/ CpLoop
    \/ CsEnter
    \/ CsLoop
    \/ CsReturn
    \/ CsFinish
    \/ \E row \in Idx : \E col \in Idx : RoundTrip(row, col)

SpecRoundTrip == InitAsc /\ [][NextRoundTrip]_vars

RoundTripSolved == op = "roundTrip" /\ SbReturned

(***************************************************************************)
(* C5 as stated: clearing any one clue of a createPuzzle output and        *)
(* solving the result reproduces the stored solution exactly.              *)
(***************************************************************************)
C5_RoundTripReproducesSolution == RoundTripSolved => (found /\ Grid = solution)

(***************************************************************************)
(* C5, as the code has it: clearing any one clue of a createPuzzle output  *)
(* and solving the result returns true with a complete legal grid that     *)
(* keeps every remaining clue; it is the stored solution whenever the      *)
(* board without that clue still has one completion only.                  *)
(***************************************************************************)
C5_RoundTripSolvesKeepingClues ==
    RoundTripSolved =>
        /\ found
        /\ Solved(Grid)
        /\ Extends(Grid, entry)
        /\ retBool => Grid = solution

\* A round trip that reproduced the solution, and the board without the
\* cleared clue had one completion.
C5_Witness == RoundTripSolved /\ found /\ retBool /\ Grid = solution

(***************************************************************************)
(* SpecPlay: a session of an Easy puzzle and the player's commands on it.  *)
(***************************************************************************)
PlayCells == {<<-1, 0>>, <<0, 0>>, <<0, 1>>, <<8, 8>>, <<0, 9>>}

PlayValues == {-1, 0, 1, 2, 3, SIZE + 1}

NextPlay ==
    \/ NewGame(EASY)
    \/ SbEnter
    \/ SbLoop
    \/ SbReturn
    \/ SbFinish
    \/ CpLoop
    \/ CsEnter
    \/ CsLoop
    \/ CsReturn
    \/ CsFinish
    \/ \E p \in PlayCells : \E v \in PlayValues : Created /\ MakeMove(p[1], p[2], v)
    \/ \E p \in PlayCells : Created /\ GetHintForCell(p[1], p[2])
    \/ Created /\ GetHint
    \/ Created /\ GetNextMove
    \/ Created /\ SolvePuzzle

SpecPlay == InitAsc /\ [][NextPlay]_vars

(***************************************************************************)
(* C6: once createPuzzle has returned, the fixed mask never changes and    *)
(* every fixed cell keeps its value, which is the solution's value there   *)
(* and not empty, through makeMove, solvePuzzle, getNextMove, getHint and  *)
(* getHintForCell.                                                         *)
(***************************************************************************)
C6_FixedCellsImmutable ==
    [][Created =>
          /\ fixed' = fixed
          /\ \A r \in Idx : \A c \in Idx :
                 fixed[r][c] => /\ board'[r][c] = board[r][c]
                                /\ board[r][c] = solution[r][c]
                                /\ board[r][c] # EMPTY]_vars

\* solvePuzzle has filled the board of a puzzle with clues and free cells.
C6_Witness ==
    /\ op = "solvePuzzle"
    /\ pc = "idle"
    /\ retBool
    /\ isComplete(board)
    /\ \E r \in Idx : \E c \in Idx : fixed[r][c]
    /\ \E r \in Idx : \E c \in Idx : ~fixed[r][c]

(***************************************************************************)
(* C7: makeMove(row, col, value) returns false and leaves the board as it  *)
(* was when the position is out of range, the cell is fixed, the value is  *)
(* outside 0..9, or the value is in 1..9 and clashes with another cell of  *)
(* the row, column or box; otherwise it returns true and the cell holds    *)
(* the value (0 clears it).  No call ends the session.                     *)
(***************************************************************************)
C7_MakeMoveContract ==
    [][(pc = "idle" /\ op' = "makeMove") =>
          LET a == args'
              rejected ==
                  \/ ~InRange(a.row, a.col)
                  \/ fixed[a.row][a.col]
                  \/ a.value \notin 0..SIZE
                  \/ a.value # EMPTY /\ Clash(board, a.row, a.col, a.value)
          IN /\ retBool' = ~rejected
             /\ board' = IF rejected THEN board
                         ELSE [board EXCEPT ![a.row][a.col] = a.value]
             /\ fixed' = fixed
             /\ solution' = solution
             /\ running' = TRUE
             /\ pc' = "idle"]_vars

\* A move rejected for a clash alone.
C7_Witness ==
    /\ op = "makeMove"
    /\ ~retBool
    /\ InRange(args.row, args.col)
    /\ ~fixed[args.row][args.col]
    /\ args.value \in 1..SIZE
    /\ Clash(board, args.row, args.col, args.value)
    /\ running

(***************************************************************************)
(* C8: getHintForCell(row, col) returns value -1 out of range, -3 on a     *)
(* clue cell, -2 on a filled cell that is not a clue, and otherwise the    *)
(* move {row, col, solution[row][col]}.                                    *)
(***************************************************************************)
C8_HintForCellClassifies ==
    (op = "getHintForCell" /\ pc = "idle") =>
        retMove = IF ~InRange(args.row, args.col) THEN Move(-1, -1, -1)
                  ELSE IF fixed[args.row][args.col] THEN Move(-1, -1, -3)
                  ELSE IF board[args.row][args.col] # EMPTY THEN Move(-1, -1, -2)
                  ELSE Move(args.row, args.col, solution[args.row][args.col])

(***************************************************************************)
(* SpecCells: findBestCell and getLogicalMove on the test grids and on     *)
(* the empty grid.                                                         *)
(***************************************************************************)
InitCells ==
    /\ board \in TestGrids \cup {EmptyGrid}
    /\ rng = "any"
    /\ InitCommon

NextCells ==
    \/ op = "none" /\ FindBestCell
    \/ op = "none" /\ GetLogicalMove

SpecCells == InitCells /\ [][NextCells]_vars

\* The empty cells of g, as k = r * SIZE + c, and their legal candidates.
EmptyCells(g) == {k \in Cells : g[k \div SIZE][k % SIZE] = EMPTY}

Cands(g, k) == {v \in 1..SIZE : ~Clash(g, k \div SIZE, k % SIZE, v)}

NumCands(g, k) == Cardinality(Cands(g, k))

\* The first empty cell among those with the fewest candidates.
FirstFewest(g) ==
    Min({k \in EmptyCells(g) : \A j \in EmptyCells(g) : NumCands(g, k) <= NumCands(g, j)})

\* The empty cells with one candidate that no empty cell with one candidate
\* or none precedes.
FirstSingle(g) ==
    {k \in EmptyCells(g) :
        /\ NumCands(g, k) = 1
        /\ \A j \in EmptyCells(g) : j < k => NumCands(g, j) > 1}

BestCellReturned == op = "findBestCell" /\ pc = "idle"

(***************************************************************************)
(* C12 as stated: findBestCell returns false exactly when the grid has no  *)
(* empty cell, and otherwise the first empty cell, in row-major order,     *)
(* among those with the fewest candidates, cells without candidates        *)
(* included.                                                               *)
(***************************************************************************)
C12_BestCellIsFirstFewest ==
    BestCellReturned =>
        /\ retBool <=> EmptyCells(board) # {}
        /\ retBool => retMove.row * SIZE + retMove.col = FirstFewest(board)

(***************************************************************************)
(* C12, as the code has it: findBestCell returns false exactly when the    *)
(* grid has no empty cell.  Otherwise it returns the first empty cell with *)
(* one candidate when no empty cell without candidates precedes it (the    *)
(* scan stops there, and a later cell without candidates is not seen), and *)
(* else the first empty cell among those with the fewest candidates.       *)
(***************************************************************************)
C12_BestCellFirstSingleOrFewest ==
    BestCellReturned =>
        /\ retBool <=> EmptyCells(board) # {}
        /\ retBool =>
              /\ retMove.row * SIZE + retMove.col \in EmptyCells(board)
              /\ retMove.row * SIZE + retMove.col =
                     IF FirstSingle(board) # {} THEN Min(FirstSingle(board))
                     ELSE FirstFewest(board)

\* findBestCell has returned a cell with one candidate and a later cell has
\* none.
C12_Witness ==
    /\ BestCellReturned
    /\ retBool
    /\ Legal(board)
    /\ NumCands(board, retMove.row * SIZE + retMove.col) = 1
    /\ \E j \in EmptyCells(board) :
           j > retMove.row * SIZE + retMove.col /\ NumCands(board, j) = 0

\* The empty cells with exactly one candidate.
Singles(g) == {k \in EmptyCells(g) : NumCands(g, k) = 1}

(***************************************************************************)
(* C11: when the board has an empty cell with exactly one candidate,       *)
(* getLogicalMove returns the first such cell in row-major order with its  *)
(* candidate; on a board with one empty cell whose value is forced that is *)
(* this cell and value.  getLogicalMove does not modify the board.         *)
(***************************************************************************)
C11_LogicalMoveFirstNakedSingle ==
    [][(op = "none" /\ op' = "getLogicalMove") =>
          /\ board' = board
          /\ Singles(board) # {} =>
                 LET k == Min(Singles(board))
                 IN retMove' = Move(k \div SIZE, k % SIZE, CHOOSE v \in Cands(board, k) : TRUE)]_vars

\* getLogicalMove has answered on a board with several empty cells of one
\* candidate.
C11_Witness ==
    /\ op = "getLogicalMove"
    /\ Cardinality(Singles(board)) >= 2
    /\ retMove.value \in 1..SIZE
    /\ retMove.row * SIZE + retMove.col = Min(Singles(board))

\* Scenario C: one empty cell, its value forced.
C11_WitnessScenarioC ==
    /\ op = "getLogicalMove"
    /\ Cardinality(EmptyCells(board)) = 1
    /\ Singles(board) = EmptyCells(board)
    /\ retMove.value \in 1..SIZE

(***************************************************************************)
(* SpecHint: a session of an Expert puzzle, generated with every shuffle   *)
(* reversing its vector, in which the player asks for the next move and    *)
(* enters the suggested value, or the solution's value of one of a few     *)
(* cells.                                                                  *)
(***************************************************************************)
InitDesc ==
    /\ board = EmptyGrid
    /\ rng = "desc"
    /\ InitCommon

HintCells == {<<8, 8>>, <<8, 7>>, <<4, 4>>}

\* The player enters the suggested move.
FollowHint ==
    /\ op = "getNextMove"
    /\ retMove.value # -1
    /\ MakeMove(retMove.row, retMove.col, retMove.value)

\* The player enters the solution's value into an empty cell.
SolutionMove(row, col) ==
    /\ Created
    /\ board[row][col] = EMPTY
    /\ MakeMove(row, col, solution[row][col])

NextHint ==
    \/ NewGame(EXPERT)
    \/ SbEnter
    \/ SbLoop
    \/ SbReturn
    \/ SbFinish
    \/ CpLoop
    \/ CsEnter
    \/ CsLoop
    \/ CsReturn
    \/ CsFinish
    \/ Created /\ GetNextMove
    \/ FollowHint
    \/ \E p \in HintCells : SolutionMove(p[1], p[2])

SpecHint == InitDesc /\ [][NextHint]_vars

(***************************************************************************)
(* C13: on a board reached from a createPuzzle output by writing solution  *)
(* values into empty cells (every non-empty cell holds the solution's      *)
(* value), getNextMove leaves the board unchanged and returns              *)
(* Move(-1, -1, -1) exactly when the board has no empty cell, and          *)
(* otherwise a move to an empty cell with the solution's value there.      *)
(***************************************************************************)
C13_NextMoveSound ==
    [][(Created /\ op' = "getNextMove") =>
          /\ board' = board
          /\ (pc' = "idle" /\ Extends(solution, board)) =>
                 /\ retMove' = NoMove <=> EmptyCells(board) = {}
                 /\ retMove' # NoMove =>
                        /\ InRange(retMove'.row, retMove'.col)
                        /\ board[retMove'.row][retMove'.col] = EMPTY
                        /\ retMove'.value = solution[retMove'.row][retMove'.col]]_vars

\* getNextMove has answered from the fallback solve of the copy.
C13_Witness ==
    /\ op = "getNextMove"
    /\ pc = "idle"
    /\ entry = board
    /\ Extends(solution, board)
    /\ retMove # NoMove
    /\ board[retMove.row][retMove.col] = EMPTY
    /\ retMove.value = solution[retMove.row][retMove.col]

\* getNextMove has answered Move(-1, -1, -1) on the completed board.
C13_WitnessComplete ==
    /\ op = "getNextMove"
    /\ pc = "idle"
    /\ isComplete(board)
    /\ board = solution
    /\ retMove = NoMove

(***************************************************************************)
(* C14: once createPuzzle has returned, in every state of a session of     *)
(* makeMove (accepted or rejected), solvePuzzle (successful or failed, and *)
(* while it searches), getNextMove, getHint and getHintForCell, every      *)
(* value on the board is in 0..9 and no non-zero value occurs twice in a   *)
(* row, column or box.                                                     *)
(***************************************************************************)
C14_BoardStaysLegal == Created => Legal(board)

\* solvePuzzle has failed on a board that holds a value entered by the
\* player, and has left it legal.
C14_Witness ==
    /\ op = "solvePuzzle"
    /\ pc = "idle"
    /\ ~retBool
    /\ Legal(board)
    /\ \E r \in Idx : \E c \in Idx : ~fixed[r][c] /\ board[r][c] # EMPTY

====
